---- MODULE Spec2Model ----
(***************************************************************************)
(* Model of cathy.py: SingleChannelBot, a single-channel IRC bot that      *)
(* answers `!stock` commands and enriches URLs posted in the channel.      *)
(*                                                                         *)
(* Python strings are TLA+ strings (TLC evaluates Len, \o, SubSeq on       *)
(* them); an optional value (None or a value) is a tuple of length 0 or 1. *)
(***************************************************************************)
EXTENDS Integers, Sequences, FiniteSets, TLC

\* --------------------------------------------------------------------------
\* Bounds of the model
\* --------------------------------------------------------------------------

\* Largest number of words (joined by single spaces) in an inbound message.
MaxTokens == 2

\* --------------------------------------------------------------------------
\* Python values
\* --------------------------------------------------------------------------

None == <<>>

Some(v) == <<v>>

\* Python truthiness of an optional string: None and "" are falsy.
Truthy(o) == o # None /\ o[1] # ""

\* The ASCII characters str.split() and str.strip() treat as whitespace:
\* the space, \t, \n, \r, \f, and (written as the characters themselves)
\* the vertical tab chr(11) and the separators chr(28), chr(29), chr(30),
\* chr(31).
Whitespace ==
    {" ", "\t", "\n", "\r", "\f", "", "", "", "", ""}

CharAt(s, i) == SubSeq(s, i, i)

\* s.startswith(p)
StartsWith(s, p) == Len(s) >= Len(p) /\ SubSeq(s, 1, Len(p)) = p

Min(S) == CHOOSE i \in S : \A j \in S : i <= j

\* Index of the first occurrence of sub in s at or after position i, 0 if none.
FindFrom(s, sub, i) ==
    LET at == {j \in i..(Len(s) - Len(sub) + 1) :
                 SubSeq(s, j, j + Len(sub) - 1) = sub}
    IN IF at = {} THEN 0 ELSE Min(at)

\* sub in s
Contains(s, sub) == FindFrom(s, sub, 1) # 0

\* s.split(sep): the pieces of s between successive non-overlapping
\* occurrences of sep, scanning left to right (sep is not empty).
RECURSIVE SplitOn(_, _)
SplitOn(s, sep) ==
    LET i == FindFrom(s, sep, 1) IN
    IF i = 0 THEN <<s>>
    ELSE <<SubSeq(s, 1, i - 1)>> \o SplitOn(SubSeq(s, i + Len(sep), Len(s)), sep)

\* s.split(): the maximal runs of non-whitespace characters of s, in order.
RECURSIVE SplitWs(_)
SplitWs(s) ==
    IF s = "" THEN <<>>
    ELSE IF CharAt(s, 1) \in Whitespace THEN SplitWs(SubSeq(s, 2, Len(s)))
    ELSE LET stops == {i \in 1..Len(s) : CharAt(s, i) \in Whitespace}
             n == IF stops = {} THEN Len(s) + 1 ELSE Min(stops)
         IN <<SubSeq(s, 1, n - 1)>> \o SplitWs(SubSeq(s, n, Len(s)))

\* s.strip(): s without its leading and trailing whitespace.
Strip(s) ==
    LET keep == {i \in 1..Len(s) : CharAt(s, i) \notin Whitespace} IN
    IF keep = {} THEN ""
    ELSE SubSeq(s, CHOOSE i \in keep : \A j \in keep : i <= j,
                   CHOOSE i \in keep : \A j \in keep : i >= j)

\* s.replace(old, new): every non-overlapping occurrence, left to right.
RECURSIVE Replace(_, _, _)
Replace(s, old, new) ==
    LET i == FindFrom(s, old, 1) IN
    IF i = 0 THEN s
    ELSE SubSeq(s, 1, i - 1) \o new
         \o Replace(SubSeq(s, i + Len(old), Len(s)), old, new)

LowerCase == "abcdefghijklmnopqrstuvwxyz"

UpperCase == "ABCDEFGHIJKLMNOPQRSTUVWXYZ"

\* s.upper() on ASCII text: every lowercase letter replaced by its capital.
RECURSIVE Upper(_)
Upper(s) ==
    IF s = "" THEN ""
    ELSE IF Len(s) = 1
    THEN LET k == FindFrom(LowerCase, s, 1)
         IN IF k = 0 THEN s ELSE CharAt(UpperCase, k)
    ELSE Upper(SubSeq(s, 1, Len(s) \div 2))
         \o Upper(SubSeq(s, Len(s) \div 2 + 1, Len(s)))

\* --------------------------------------------------------------------------
\* Configuration and inputs
\* --------------------------------------------------------------------------

\* The channel the bot is constructed with (self.channel).
SelfChannel == "#guns"

\* The nickserv_password values the bot may be constructed with.
Passwords == {None, Some(""), Some("XXXXXXXXXXX")}

\* The channels a public message event may name as its target.
Targets == {"#guns", "#ops"}

\* The words inbound messages are made of.
Words ==
    { "", "!stock", "!stocks", "aapl",
      "!stockhttp://b.io",   \* two words parted by chr(11)
      "http://a.io/p",
      "https://www.youtube.com/watch?v=ABC123&t=5",
      "https://youtube.com/shorts/XYZ789?feature=share",
      "https://youtu.be/Q1W2E3",
      "https://youtube.com/feed",
      "https://youtu.be/shorts/s?r=watch?v=wwatch?v=z&x" }

\* The words of a message joined by single spaces.
RECURSIVE Join(_)
Join(ws) ==
    IF Len(ws) = 0 THEN ""
    ELSE IF Len(ws) = 1 THEN ws[1]
    ELSE ws[1] \o " " \o Join(Tail(ws))

\* The inbound message texts (e.arguments[0]) the model feeds the bot.
Messages ==
    {Join(ws) : ws \in UNION {[1..n -> Words] : n \in 1..MaxTokens}}

\* The events the server delivers to the bot, in order.
Welcome == [type |-> "welcome", target |-> "", text |-> ""]

PubMsg(ch, m) == [type |-> "pubmsg", target |-> ch, text |-> m]

\* What the server delivers over a connection: the welcome, then a public
\* message of a channel or (after a reconnect) another welcome.
Inboxes ==
    {<<Welcome, PubMsg(ch, m)>> : ch \in Targets, m \in Messages}
    \cup {<<Welcome, Welcome>>}

\* What the parsed page of a 200 response may hold: soup.title is None (no
\* <title> element), or an element whose .string is None or a string; the
\* description <meta> element is missing, lacks a content attribute, or has one.
Page(t, m) == [kind |-> "http", status |-> 200, title |-> t, meta |-> m]

Pages ==
    { Page(None, None),
      Page(Some(None), None),
      Page(Some(Some("Cats - YouTube")), Some(None)),
      Page(Some(Some("a\nb")), Some(Some(" d\ne"))),
      Page(Some(Some(" - YouTube ")), Some(Some("d"))) }

\* What requests.get can do once the remote end acts: raise a connection
\* error, or return a response with a status code and a page.
Outcomes ==
    {[kind |-> "error", status |-> 0, title |-> None, meta |-> None]}
    \cup {[kind |-> "http", status |-> 404, title |-> None, meta |-> None]}
    \cup Pages

\* What requests.get does when its timeout elapses: raise a Timeout error.
TimedOut == [kind |-> "timeout", status |-> 0, title |-> None, meta |-> None]

\* What yf.Ticker(ticker).info can do: raise, or return a dictionary whose
\* keys are absent (None) or carry a value.
Raises ==
    [raises |-> TRUE, regularMarketPrice |-> None, preMarketPrice |-> None,
     postMarketPrice |-> None, regularMarketPreviousClose |-> None,
     longName |-> None, currency |-> None]

Info(r, p, a, c, n, u) ==
    [raises |-> FALSE, regularMarketPrice |-> r, preMarketPrice |-> p,
     postMarketPrice |-> a, regularMarketPreviousClose |-> c,
     longName |-> n, currency |-> u]

\* Every combination of present and absent prices, each key with a price of
\* its own; and, without a name or a currency, a price of 0 in each tier.
Providers ==
    {Raises}
    \cup {Info(r, p, a, c, Some("Apple Inc."), Some("USD")) :
            r \in {None, Some(150)}, p \in {None, Some(151)},
            a \in {None, Some(152)}, c \in {None, Some(149)}}
    \cup { Info(Some(0), Some(151), Some(152), Some(149), None, None),
           Info(None, Some(0), Some(152), Some(149), None, None),
           Info(None, None, Some(0), Some(149), None, None),
           Info(None, None, None, Some(0), None, None) }

\* --------------------------------------------------------------------------
\* Calls on the connection object c
\* --------------------------------------------------------------------------

send(text) == [op |-> "send", target |-> "", text |-> text]

join(channel) == [op |-> "join", target |-> channel, text |-> ""]

privmsg(channel, text) == [op |-> "privmsg", target |-> channel, text |-> text]

\* --------------------------------------------------------------------------
\* Pure methods of SingleChannelBot
\* --------------------------------------------------------------------------

\* extract_urls: the whitespace-delimited words that start with "http".
extract_urls(text) == SelectSeq(SplitWs(text), LAMBDA w : StartsWith(w, "http"))

\* The test on_pubmsg applies to choose the video branch.
IsVideoUrl(url) == Contains(url, "youtube.com") \/ Contains(url, "youtu.be")

\* A variant of get_youtube_video_id that tries /shorts/ before watch?v=.
get_youtube_video_id_shorts_first(url) ==
    IF Contains(url, "/shorts/")
    THEN Some(SplitOn(SplitOn(url, "/shorts/")[2], "?")[1])
    ELSE IF Contains(url, "watch?v=")
    THEN Some(SplitOn(SplitOn(url, "watch?v=")[2], "&")[1])
    ELSE IF Contains(url, "youtu.be/")
    THEN Some(SplitOn(SplitOn(url, "youtu.be/")[2], "?")[1])
    ELSE None

\* get_youtube_video_id: the first marker contained in the url decides.
get_youtube_video_id(url) ==
    IF Contains(url, "watch?v=")
    THEN Some(SplitOn(SplitOn(url, "watch?v=")[2], "&")[1])
    ELSE IF Contains(url, "/shorts/")
    THEN Some(SplitOn(SplitOn(url, "/shorts/")[2], "?")[1])
    ELSE IF Contains(url, "youtu.be/")
    THEN Some(SplitOn(SplitOn(url, "youtu.be/")[2], "?")[1])
    ELSE None

\* A variant of RaisesForStatus for code that never checks the status.
RaisesForStatus_never(o) == FALSE

\* response.raise_for_status() raises for 4xx and 5xx status codes.
RaisesForStatus(o) == o.status >= 400 /\ o.status < 600

\* get_youtube_video_title, given what requests.get did: any exception in
\* the try block (the request, the status, .replace on a None title string)
\* gives None.
get_youtube_video_title(o) ==
    IF o.kind # "http" \/ RaisesForStatus(o) THEN None
    ELSE IF o.title = None THEN Some(Strip(Replace("No Title Found", "- YouTube", "")))
    ELSE IF o.title[1] = None THEN None
    ELSE Some(Strip(Replace(o.title[1][1], "- YouTube", "")))

\* get_webpage_description, given what requests.get did: any exception in the
\* try block (the request, the status, .strip on a None title string, a meta
\* element without a content attribute) gives None.
get_webpage_description(o) ==
    IF o.kind # "http" \/ RaisesForStatus(o) THEN None
    ELSE IF o.title # None /\ o.title[1] = None THEN None
    ELSE IF o.meta # None /\ o.meta[1] = None THEN None
    ELSE LET title == IF o.title # None THEN Strip(o.title[1][1]) ELSE "No Title"
             meta_desc == IF o.meta # None THEN Strip(o.meta[1][1])
                          ELSE "No Description"
         IN Some("Title: " \o title \o ", Description: " \o meta_desc)

\* info.get(key, default) for a key that is absent or carries a value.
Get(o, default) == IF o = None THEN default ELSE o[1]

\* A variant of get_stock_price that prefers the after-hours price to the
\* pre-market price.
get_stock_price_after_first(ticker, p) ==
    IF p.raises
    THEN "Error fetching data for ticker: " \o ticker \o ". Please try again later."
    ELSE
      LET who == Get(p.longName, ticker) \o " (" \o ticker \o ")"
          currency == Get(p.currency, "N/A")
      IN IF p.regularMarketPrice # None
         THEN who \o " is currently trading at "
              \o ToString(p.regularMarketPrice[1]) \o " " \o currency
         ELSE IF p.postMarketPrice # None
         THEN who \o " is trading at " \o ToString(p.postMarketPrice[1]) \o " "
              \o currency \o " in after-hours trading."
         ELSE IF p.preMarketPrice # None
         THEN who \o " is trading at " \o ToString(p.preMarketPrice[1]) \o " "
              \o currency \o " in pre-market trading."
         ELSE IF p.regularMarketPreviousClose # None
         THEN who \o " closed at " \o ToString(p.regularMarketPreviousClose[1])
              \o " " \o currency \o " on the last trading day."
         ELSE "No price data available for ticker: " \o ticker

\* get_stock_price, given what the provider did for this ticker.
get_stock_price(ticker, p) ==
    IF p.raises
    THEN "Error fetching data for ticker: " \o ticker \o ". Please try again later."
    ELSE
      LET current_price == p.regularMarketPrice
          previous_close == p.regularMarketPreviousClose
          after_hours == p.postMarketPrice
          pre_market == p.preMarketPrice
          company_name == Get(p.longName, ticker)
          currency == Get(p.currency, "N/A")
          who == company_name \o " (" \o ticker \o ")"
      IN IF current_price = None
         THEN IF pre_market # None
              THEN who \o " is trading at " \o ToString(pre_market[1]) \o " "
                   \o currency \o " in pre-market trading."
              ELSE IF after_hours # None
              THEN who \o " is trading at " \o ToString(after_hours[1]) \o " "
                   \o currency \o " in after-hours trading."
              ELSE IF previous_close # None
              THEN who \o " closed at " \o ToString(previous_close[1]) \o " "
                   \o currency \o " on the last trading day."
              ELSE "No price data available for ticker: " \o ticker
         ELSE who \o " is currently trading at " \o ToString(current_price[1])
              \o " " \o currency

\* A variant of IsCommand that compares the whole message with the token.
IsCommand_exact(message) == message = "!stock"

\* The test on_pubmsg applies to choose the command branch.
IsCommand(message) == StartsWith(message, "!stock")

\* The test handle_stock_command applies before it looks a ticker up.
HasTicker(parts) == Len(parts) = 2

\* A variant of Ticker that leaves the case of the word as typed.
Ticker_raw(parts) == parts[2]

\* The ticker handle_stock_command looks up: the second word, uppercased.
Ticker(parts) == Upper(parts[2])

\* handle_stock_command: the calls it makes on c, given what the provider
\* does if it is asked.
handle_stock_command(message, channel, p) ==
    LET parts == SplitWs(message) IN
    IF HasTicker(parts)
    THEN LET ticker == Ticker(parts)
             stock_info == get_stock_price(ticker, p)
         IN IF stock_info # ""
            THEN <<privmsg(channel, stock_info)>>
            ELSE <<privmsg(channel, "Could not retrieve data for ticker: " \o ticker)>>
    ELSE <<privmsg(channel, "Usage: !stock TICKER")>>

\* The tickers handle_stock_command passes to get_stock_price.
StockLookups(message) ==
    LET parts == SplitWs(message) IN
    IF HasTicker(parts) THEN <<Ticker(parts)>> ELSE <<>>

\* --------------------------------------------------------------------------
\* State
\* --------------------------------------------------------------------------

VARIABLES
    nickserv_password,  \* self.nickserv_password: None or a string
    inbox,              \* the events the server delivers, in order
    pos,                \* position in inbox of the next event to handle
    pc,                 \* "idle", "ticker_info" (blocked in the provider
                        \* lookup), "for_url" (at the head of the loop over
                        \* urls) or "requests_get" (blocked in a fetch)
    message,            \* e.arguments[0] of the message being handled
    channel,            \* e.target of the message being handled
    sent,               \* the calls made on the connection c so far
    urls,               \* extract_urls(message)
    idx,                \* position in urls of the loop (1-based)
    req,                \* the request in flight: None or Some([url, timeout])
    resp,               \* what requests.get did for the url handled last:
                        \* None (no request made) or Some(o)
    results,            \* per url handled so far, the enricher's return value
    lookups,            \* the tickers get_stock_price was called with
    quote               \* what the provider did when asked: None or Some(p)

vars == <<nickserv_password, inbox, pos, pc, message, channel, sent, urls,
          idx, req, resp, results, lookups, quote>>

\* The seconds requests.get waits in get_webpage_description.
PageTimeout == 10

\* The state once SingleChannelBot.__init__ has returned and the bot has
\* connected: nothing handled, nothing sent.
Init ==
    /\ nickserv_password \in Passwords
    /\ inbox \in Inboxes
    /\ pos = 1
    /\ pc = "idle"
    /\ message = ""
    /\ channel = ""
    /\ sent = <<>>
    /\ urls = <<>>
    /\ idx = 1
    /\ req = None
    /\ resp = None
    /\ results = <<>>
    /\ lookups = <<>>
    /\ quote = None

\* --------------------------------------------------------------------------
\* Handlers
\* --------------------------------------------------------------------------

\* A variant of Identify that tests the password against None alone.
Identify_not_none(password) ==
    IF password # None
    THEN <<send("PRIVMSG NickServ :IDENTIFY " \o password[1])>>
    ELSE <<>>

\* The first part of on_welcome: one raw line to NickServ if the password
\* is truthy (neither None nor empty), nothing otherwise.
Identify(password) ==
    IF Truthy(password)
    THEN <<send("PRIVMSG NickServ :IDENTIFY " \o password[1])>>
    ELSE <<>>

\* The reactor hands over the next event once the previous handler returned.
Delivered(type) ==
    /\ pc = "idle"
    /\ pos <= Len(inbox)
    /\ inbox[pos].type = type

\* on_welcome: identify to NickServ if a password is set, then join.
on_welcome ==
    /\ Delivered("welcome")
    /\ pos' = pos + 1
    /\ sent' = sent \o Identify(nickserv_password) \o <<join(SelfChannel)>>
    /\ UNCHANGED <<nickserv_password, inbox, pc, message, channel, urls, idx,
                   req, resp, results, lookups, quote>>

\* on_pubmsg, up to its first blocking call. A command message goes to
\* handle_stock_command, which answers a line that is not of two words at
\* once and otherwise asks the provider for the ticker; any other message
\* enters the loop over its urls (and returns at once when it has none).
on_pubmsg ==
    /\ Delivered("pubmsg")
    /\ pos' = pos + 1
    /\ message' = inbox[pos].text
    /\ channel' = inbox[pos].target
    /\ idx' = 1
    /\ IF IsCommand(message')
       THEN /\ lookups' = StockLookups(message')
            /\ IF lookups' = <<>>
               THEN /\ sent' = sent \o handle_stock_command(message', channel', Raises)
                    /\ pc' = "idle"
               ELSE /\ pc' = "ticker_info"
                    /\ UNCHANGED sent
            /\ UNCHANGED urls
       ELSE /\ urls' = extract_urls(message')
            /\ pc' = IF urls' = <<>> THEN "idle" ELSE "for_url"
            /\ UNCHANGED <<sent, lookups>>
    /\ UNCHANGED <<nickserv_password, inbox, req, resp, results, quote>>

\* The provider acts on yf.Ticker(ticker).info, raising or returning the
\* dictionary: get_stock_price returns its text and handle_stock_command
\* sends it. The lookup is made without a timeout.
ticker_info_returns ==
    /\ pc = "ticker_info"
    /\ \E p \in Providers :
        /\ quote' = Some(p)
        /\ sent' = sent \o handle_stock_command(message, channel, p)
    /\ pc' = "idle"
    /\ UNCHANGED <<nickserv_password, inbox, pos, message, channel, urls, idx,
                   req, resp, results, lookups>>

\* A variant of AfterUrl that leaves the loop after its first iteration.
AfterUrl_break == "idle"

\* Where the loop goes once urls[idx] is dealt with.
AfterUrl == IF idx < Len(urls) THEN "for_url" ELSE "idle"

\* The request get_youtube_video_title issues for a video id.
VideoRequest(video_id) ==
    [url |-> "https://www.youtube.com/watch?v=" \o video_id, timeout |-> None]

\* The request get_webpage_description issues for a url.
PageRequest(url) == [url |-> url, timeout |-> Some(PageTimeout)]

\* One iteration of the loop, up to the call of requests.get: a video url
\* without an id is skipped, any other url starts a fetch.
for_url ==
    /\ pc = "for_url"
    /\ LET url == urls[idx] IN
       IF IsVideoUrl(url)
       THEN LET video_id == get_youtube_video_id(url) IN
            IF Truthy(video_id)
            THEN /\ req' = Some(VideoRequest(video_id[1]))
                 /\ pc' = "requests_get"
                 /\ UNCHANGED <<idx, results, resp>>
            ELSE /\ results' = Append(results, None)
                 /\ resp' = None
                 /\ idx' = idx + 1
                 /\ pc' = AfterUrl
                 /\ UNCHANGED req
       ELSE /\ req' = Some(PageRequest(url))
            /\ pc' = "requests_get"
            /\ UNCHANGED <<idx, results, resp>>
    /\ UNCHANGED <<nickserv_password, inbox, pos, message, channel, sent,
                   urls, lookups, quote>>

\* The rest of the iteration once requests.get has acted as o: the enricher
\* returns, and a truthy result is sent to the channel of the message.
Enriched(o) ==
    LET video == IsVideoUrl(urls[idx])
        result == IF video THEN get_youtube_video_title(o)
                  ELSE get_webpage_description(o)
        label == IF video THEN "YouTube Title: " ELSE "Page Info: "
    IN /\ results' = Append(results, result)
       /\ sent' = IF Truthy(result)
                  THEN Append(sent, privmsg(channel, label \o result[1]))
                  ELSE sent
       /\ resp' = Some(o)
       /\ req' = None
       /\ idx' = idx + 1
       /\ pc' = AfterUrl
       /\ UNCHANGED <<nickserv_password, inbox, pos, message, channel, urls,
                      lookups, quote>>

\* The remote end acts: requests.get raises or returns a response.
requests_get_returns ==
    /\ pc = "requests_get"
    /\ \E o \in Outcomes : Enriched(o)

\* The timeout of the request in flight elapses: requests.get raises. A
\* request made without a timeout never does this.
requests_get_timeout ==
    /\ pc = "requests_get"
    /\ req[1].timeout # None
    /\ Enriched(TimedOut)

Next ==
    \/ on_welcome
    \/ on_pubmsg
    \/ ticker_info_returns
    \/ for_url
    \/ requests_get_returns
    \/ requests_get_timeout

Spec == Init /\ [][Next]_vars

\* --------------------------------------------------------------------------
\* Properties
\* --------------------------------------------------------------------------

\* The event handled last (where one has been handled).
Last == inbox[pos - 1]

\* The event handled last is a channel message that starts with the command token.
InCommand ==
    pos > 1 /\ Last.type = "pubmsg" /\ StartsWith(Last.text, "!stock")

\* The event handled last is a channel message that does not.
InText ==
    pos > 1 /\ Last.type = "pubmsg" /\ ~StartsWith(Last.text, "!stock")

\* The lines sent to channels so far.
Replies == SelectSeq(sent, LAMBDA c : c.op = "privmsg")

\* C1: a message that starts with `!stock` is handled by the stock handler
\* alone: no url of it is ever looked at (no loop, no request, no response, no
\* enrichment result), nothing is sent while the provider is asked, and once
\* the handler has returned exactly one reply has gone to the channel the
\* message came from, and it is no enrichment reply.
C1_StockRoutedExclusively ==
    InCommand =>
        /\ pc \in {"idle", "ticker_info"}
        /\ urls = <<>> /\ req = None /\ resp = None /\ results = <<>>
        /\ pc = "ticker_info" => Replies = <<>>
        /\ pc = "idle" =>
             /\ Len(Replies) = 1
             /\ Replies[1].target = Last.target
             /\ ~StartsWith(Replies[1].text, "YouTube Title: ")
             /\ ~StartsWith(Replies[1].text, "Page Info: ")

C1_Witness ==
    /\ InCommand
    /\ pc = "idle"
    /\ Last.text = "!stock http://a.io/p"
    /\ Len(Replies) = 1

\* The provider's keys in the order of the tiers REGULAR, PRE_MARKET,
\* AFTER_HOURS, PREVIOUS_CLOSE, and the phrasing of each tier around the price.
TierKeys ==
    <<"regularMarketPrice", "preMarketPrice", "postMarketPrice",
      "regularMarketPreviousClose">>

TierLead ==
    <<" is currently trading at ", " is trading at ", " is trading at ",
      " closed at ">>

TierTail ==
    <<"", " in pre-market trading.", " in after-hours trading.",
      " on the last trading day.">>

\* C2: when the provider answers, the one reply is phrased for the first tier
\* in the order REGULAR, PRE_MARKET, AFTER_HOURS, PREVIOUS_CLOSE whose price is
\* present and quotes that price, and it is "No price data available for
\* ticker: <symbol>" exactly when no tier has a price.
C2_TierOrder ==
    (quote # None /\ ~quote[1].raises) =>
        LET p == quote[1]
            t == lookups[1]
            avail == {i \in 1..4 : p[TierKeys[i]] # None}
            who == (IF p.longName = None THEN t ELSE p.longName[1])
                   \o " (" \o t \o ")"
            cur == IF p.currency = None THEN "N/A" ELSE p.currency[1]
        IN /\ Len(Replies) = 1
           /\ Replies[1].text =
                IF avail = {} THEN "No price data available for ticker: " \o t
                ELSE LET i == Min(avail) IN
                     who \o TierLead[i] \o ToString(p[TierKeys[i]][1]) \o " "
                     \o cur \o TierTail[i]

C2_Witness ==
    /\ quote = Some(Info(None, None, None, Some(149), Some("Apple Inc."), Some("USD")))
    /\ lookups = <<"AAPL">>
    /\ Len(Replies) = 1
    /\ Replies[1].text = "Apple Inc. (AAPL) closed at 149 USD on the last trading day."

\* C3: the provider is asked only for a command line of exactly two words of
\* which the first is `!stock`; every other line that starts with `!stock`
\* gets the reply "Usage: !stock TICKER" and no lookup.
C3_LookupOnlyForStockSymbol ==
    InCommand =>
        LET parts == SplitWs(Last.text) IN
        IF Len(parts) = 2 /\ parts[1] = "!stock"
        THEN lookups = <<Upper(parts[2])>>
        ELSE /\ lookups = <<>>
             /\ quote = None
             /\ Replies = <<privmsg(Last.target, "Usage: !stock TICKER")>>

\* C4: when the provider raises, the handler has returned and the one line
\* sent for the message is the error reply with the symbol in upper case.
C4_ProviderErrorReply ==
    (quote # None /\ quote[1].raises) =>
        /\ InCommand
        /\ pc = "idle"
        /\ req = None /\ resp = None /\ results = <<>>
        /\ Replies =
             <<privmsg(Last.target,
                       "Error fetching data for ticker: "
                       \o Upper(SplitWs(Last.text)[2])
                       \o ". Please try again later.")>>

C4_Witness ==
    /\ quote # None /\ quote[1].raises
    /\ Last.text = "!stock aapl"
    /\ Replies[1].text = "Error fetching data for ticker: AAPL. Please try again later."

\* The number of whitespace-delimited words of a text that start with `http`.
HttpTokens(text) ==
    LET ws == SplitWs(text) IN
    Cardinality({i \in 1..Len(ws) : StartsWith(ws[i], "http")})

\* A url of the video domains.
VideoDomain(url) ==
    \E d \in {"youtube.com", "youtu.be"} : Contains(url, d)

\* The replies that the enrichment results rs of the first Len(rs) urls call
\* for: one per present, non-empty result, in the order of the urls, each
\* labelled by the strategy of its url and sent to the channel of the message.
RECURSIVE RepliesFor(_)
RepliesFor(rs) ==
    IF rs = <<>> THEN <<>>
    ELSE LET k == Len(rs)
             r == rs[k]
             label == IF VideoDomain(urls[k]) THEN "YouTube Title: "
                      ELSE "Page Info: "
         IN RepliesFor(SubSeq(rs, 1, k - 1))
            \o (IF r # None /\ r[1] # ""
                THEN <<privmsg(Last.target, label \o r[1])>> ELSE <<>>)

\* C5: for a message that is no command and has N words starting with `http`,
\* the loop visits the N words one by one, has visited all N when the handler
\* returns whatever each fetch did, and the replies sent are at every moment
\* exactly those of the words visited so far whose enrichment gave a result,
\* one per word and in their order: never more than N, none when N = 0.
C5_OneAttemptPerToken ==
    InText =>
        LET N == HttpTokens(Last.text) IN
        /\ Len(urls) = N
        /\ Len(results) = idx - 1
        /\ Len(results) <= N
        /\ (pc = "idle") = (Len(results) = N)
        /\ Replies = RepliesFor(results)
        /\ Len(Replies) <= Len(results)

C5_Witness ==
    /\ InText
    /\ pc = "idle"
    /\ urls = <<"http://a.io/p", "https://youtu.be/Q1W2E3">>
    /\ resp # None /\ resp[1].kind = "http" /\ resp[1].status = 200
    /\ results = <<None, Some("Cats")>>
    /\ Len(Replies) = 1

\* A request for the url visited last has finished, and that url is of the
\* video domains.
VideoFetched ==
    /\ InText
    /\ resp # None
    /\ Len(results) >= 1
    /\ VideoDomain(urls[Len(results)])

\* The number of the first k urls whose enrichment called for a reply.
Replied(k) ==
    Cardinality({i \in 1..k : results[i] # None /\ results[i][1] # ""})

\* No line was sent for the url visited last.
NoReplyForLast == Len(Replies) = Replied(Len(results) - 1)

\* C6 as stated: a network error, an error status, or a page without a title
\* leaves the url of a video without a reply.
C6_VideoFailureSilent ==
    VideoFetched =>
        LET o == resp[1] IN
        (o.kind # "http" \/ o.status \notin 200..299 \/ o.title = None)
            => NoReplyForLast

\* C6 as amended: a network error, an error status or a title element
\* without a string leaves the url of a video without a reply; a page with no
\* title element gets the reply "YouTube Title: No Title Found".
C6_VideoFailureReplies ==
    VideoFetched =>
        LET o == resp[1] IN
        /\ (o.kind # "http" \/ o.status \in 400..599
            \/ (o.title # None /\ o.title[1] = None))
            => NoReplyForLast
        /\ (o.kind = "http" /\ o.status \in 200..299 /\ o.title = None)
            => /\ Len(Replies) = Replied(Len(results) - 1) + 1
               /\ Replies[Len(Replies)] =
                    privmsg(Last.target, "YouTube Title: No Title Found")

C6_Witness ==
    /\ VideoFetched
    /\ Len(results) = 2
    /\ VideoDomain(urls[1])
    /\ results[1] = Some("No Title Found")
    /\ resp[1].kind = "http" /\ resp[1].status = 404
    /\ Len(Replies) = 1

\* C7: every request in flight carries a timeout (so that it ends, and the
\* handler goes on, even if the remote end never answers).
C7_EveryFetchHasTimeout ==
    pc = "requests_get" => (req # None /\ req[1].timeout # None)

\* C8: no line handed to the connection contains a line break.
C8_SingleLine ==
    \A i \in 1..Len(sent) :
        ~Contains(sent[i].text, "\n") /\ ~Contains(sent[i].text, "\r")

\* The calls on_welcome makes when a secret is configured, and when not.
WelcomeCalls ==
    IF nickserv_password \notin {None, Some("")}
    THEN <<send("PRIVMSG NickServ :IDENTIFY " \o nickserv_password[1]),
           join("#guns")>>
    ELSE <<join("#guns")>>

RECURSIVE Times(_, _)
Times(block, k) == IF k = 0 THEN <<>> ELSE block \o Times(block, k - 1)

\* C9: the lines and joins sent so far are, per welcome event handled, one
\* identify line followed by one join of the configured channel if a secret
\* is configured, and one join alone if none is.
C9_IdentifyThenJoin ==
    LET k == Cardinality({i \in 1..(pos - 1) : inbox[i].type = "welcome"}) IN
    SelectSeq(sent, LAMBDA c : c.op # "privmsg") = Times(WelcomeCalls, k)

C9_Witness ==
    /\ nickserv_password = Some("XXXXXXXXXXX")
    /\ pos = 3
    /\ inbox = <<Welcome, Welcome>>
    /\ Len(sent) = 4
    /\ sent[3].op = "send" /\ sent[4].op = "join"

\* The markers of a video identifier in the order of the rules, each with the
\* character that ends the identifier.
Markers ==
    <<[m |-> "watch?v=", e |-> "&"], [m |-> "/shorts/", e |-> "?"],
      [m |-> "youtu.be/", e |-> "?"]>>

\* The rules whose marker the url contains.
Matching(url) == {i \in 1..3 : Contains(url, Markers[i].m)}

\* The text of s before the first place where one of the stops begins.
UpTo(s, stops) ==
    LET at == {i \in 1..Len(s) : \E t \in stops : FindFrom(s, t, i) = i}
    IN IF at = {} THEN s ELSE SubSeq(s, 1, Min(at) - 1)

\* The identifier by the first matching rule: the text after the first
\* occurrence of the marker, up to the end character (or the marker again).
RuleId(url) ==
    LET r == Markers[Min(Matching(url))]
        after == SubSeq(url, FindFrom(url, r.m, 1) + Len(r.m), Len(url))
    IN UpTo(after, {r.e, r.m})

\* C10: a url of the video domains is never fetched itself: the request made
\* for it is the one for the video page of the identifier given by the first
\* matching rule in the order watch?v=, /shorts/, youtu.be/; if no rule
\* matches there is no request; and a reply for it is a video title reply.
C10_VideoStrategy ==
    InText =>
        /\ (pc = "requests_get" /\ VideoDomain(urls[idx])) =>
             /\ Matching(urls[idx]) # {}
             /\ req = Some([url |-> "https://www.youtube.com/watch?v="
                                    \o RuleId(urls[idx]),
                            timeout |-> None])
        /\ \A i \in 1..Len(results) :
             (VideoDomain(urls[i]) /\ Matching(urls[i]) = {}) =>
                 /\ results[i] = None
                 /\ i = Len(results) => (resp = None /\ NoReplyForLast)
        /\ (Len(results) >= 1 /\ VideoDomain(urls[Len(results)])
            /\ ~NoReplyForLast) =>
             StartsWith(Replies[Len(Replies)].text, "YouTube Title: ")

C10_Witness ==
    /\ pc = "requests_get"
    /\ urls[idx] = "https://youtu.be/shorts/s?r=watch?v=wwatch?v=z&x"
    /\ req[1].url = "https://www.youtube.com/watch?v=w"

====
